---- MODULE Spec2Model ----
(***************************************************************************)
(* git-polish-history: the resumable replay engine.                        *)
(*                                                                         *)
(* Two implementations of the same design are modelled side by side, the   *)
(* variable impl says which one runs:                                      *)
(*   "gogit"  - src/git-polish-history.go, second program (lines 604-1218) *)
(*   "git2go" - src/unnamed/part_001                                       *)
(* The repository (commit objects, branches, HEAD, working copy, the       *)
(* CHERRY_PICK_HEAD marker) and the checkpoint directory are the state;    *)
(* one tool invocation is a process whose position is pc.                  *)
(***************************************************************************)
EXTENDS Integers, Sequences, FiniteSets, TLC

\* ------------------------------------------------------------- bounds
MaxN == 3        \* commits above the root in the initial history
MaxObjs == 7     \* commit objects the repository may hold
MaxUserOps == 2  \* events from outside: manual git operations, kills
MaxText == 2     \* characters of a build command in the checkpoint store runs

\* ---------------------------------------------------------- constants
NL == 0          \* the "\n" separator of the commits file (ids are >= 1)

Impls == {"gogit", "git2go"}
Branches == {"main", "other"}
Cmds == {"make", "check"}
Dirs == {"d1", "d2"}
FileNames == {"build-command", "build-directory", "branch", "commits"}
ExitStatuses == {"exit0", "exitN"}   \* the build ran and exited
BuildOutcomes == ExitStatuses \cup {"nostart"}

VARIABLES
    impl,     \* which implementation runs
    repo,     \* the git repository
    ckpt,     \* the files of .git/polish-history
    pc,       \* position of the running invocation, "idle" between invocations
    st,       \* the invocation's state struct
    loc,      \* the invocation's locals
    inv,      \* history of the current (or last) invocation
    res,      \* how the last invocation ended
    sess,     \* history of the session
    userOps   \* events from outside so far

vars == <<impl, repo, ckpt, pc, st, loc, inv, res, sess, userOps>>

\* ------------------------------------------------------ the repository
\* repo.objs[i] is commit i; repo.cur is the branch HEAD is on ("" when
\* detached, then repo.det is HEAD, else repo.det is 0); repo.base is the commit whose tree the
\* index and working copy hold, repo.mod says they hold changes on top of it;
\* repo.cp is CHERRY_PICK_HEAD (0 when absent).
HEAD(r) == IF r.cur = "" THEN r.det ELSE r.refs[r.cur]

MoveHead(r, c) ==
    IF r.cur = "" THEN [r EXCEPT !.det = c] ELSE [r EXCEPT !.refs[r.cur] = c]

NewId(r) == Len(r.objs) + 1

ReplayObj_keepsParents(r, commit) ==
    [parents |-> r.objs[commit].parents,
     author |-> r.objs[commit].author,
     message |-> r.objs[commit].message]

\* A commit replaying `commit` on top of HEAD: its author and message, HEAD
\* as the single parent.
ReplayObj(r, commit) ==
    [parents |-> <<HEAD(r)>>,
     author |-> r.objs[commit].author,
     message |-> r.objs[commit].message]

\* A commit amending HEAD: HEAD's parents, author and message.
AmendObj(r) ==
    [parents |-> r.objs[HEAD(r)].parents,
     author |-> r.objs[HEAD(r)].author,
     message |-> r.objs[HEAD(r)].message]

\* The index and working copy hold exactly commit c.
CleanAt(r, c) ==
    [r EXCEPT !.base = c, !.mod = FALSE, !.conflicted = FALSE]

branchName(r) == r.cur

hasChanges_worktreeOnly(r) == r.base # HEAD(r)

hasChanges(r) == r.base # HEAD(r) \/ r.mod \/ r.conflicted

\* ------------------------------------------------------ checkpoint store
NoCkpt ==
    [has |-> {}, cmd |-> "", bdir |-> "", branch |-> "", commits |-> <<>>]

RECURSIVE Join(_)
Join(ids) ==
    IF Len(ids) = 0 THEN <<>>
    ELSE IF Len(ids) = 1 THEN <<ids[1]>>
    ELSE <<ids[1], NL>> \o Join(Tail(ids))

RECURSIVE TrimLeft(_)
TrimLeft(s) ==
    IF Len(s) > 0 /\ s[1] = NL THEN TrimLeft(Tail(s)) ELSE s

RECURSIVE TrimRight(_)
TrimRight(s) ==
    IF Len(s) > 0 /\ s[Len(s)] = NL
    THEN TrimRight(SubSeq(s, 1, Len(s) - 1)) ELSE s

TrimSpace(s) == TrimRight(TrimLeft(s))

Fields_keepSeparators(s) == s

RECURSIVE Fields(_)
Fields(s) ==
    IF Len(s) = 0 THEN <<>>
    ELSE IF s[1] = NL THEN Fields(Tail(s))
    ELSE <<s[1]>> \o Fields(Tail(s))

readCommitsFromFile(content) == Fields(TrimSpace(content))

readState_ignoresErrors(ck) ==
    [ok |-> TRUE,
     st |-> [branchName |-> ck.branch,
             buildCommand |-> ck.cmd,
             buildDirectory |-> ck.bdir,
             commits |-> readCommitsFromFile(ck.commits)]]

readState(ck) ==
    [ok |-> ck.has = FileNames,
     st |-> [branchName |-> ck.branch,
             buildCommand |-> ck.cmd,
             buildDirectory |-> ck.bdir,
             commits |-> readCommitsFromFile(ck.commits)]]

\* writeState writes its four files in this order, one per step.
WriteOrder == <<"build-command", "build-directory", "branch", "commits">>

writeStateFile(ck, name, stv) ==
    LET ck1 == [ck EXCEPT !.has = @ \cup {name}] IN
    CASE name = "build-command" -> [ck1 EXCEPT !.cmd = stv.buildCommand]
      [] name = "build-directory" -> [ck1 EXCEPT !.bdir = stv.buildDirectory]
      [] name = "branch" -> [ck1 EXCEPT !.branch = stv.branchName]
      [] name = "commits" -> [ck1 EXCEPT !.commits = Join(stv.commits)]

deleteState_keepsFiles(ck) == ck

deleteState(ck) == NoCkpt

\* -------------------------------------------------- version-control steps
\* gogit: `git reset --hard commit` moves whatever HEAD is on, resets index
\* and working copy and drops CHERRY_PICK_HEAD.
ResetHard(r, commit) ==
    [CleanAt(MoveHead(r, commit), commit) EXCEPT !.cp = 0]

\* git2go: materialise the tree of `commit` in index and working copy.
CheckoutTree(r, commit) == [r EXCEPT !.base = commit]

\* git2go setHead: [repo, exit]; exit is the os.Exit(1) of the branch check.
setHead(r, stv, commit) ==
    IF stv.branchName = ""
    THEN [repo |-> [r EXCEPT !.cur = "", !.det = commit], exit |-> FALSE]
    ELSE IF stv.branchName # branchName(r)
    THEN [repo |-> r, exit |-> TRUE]
    ELSE [repo |-> [r EXCEPT !.refs[stv.branchName] = commit], exit |-> FALSE]

checkout(im, r, stv, commit) ==
    IF im = "gogit"
    THEN [repo |-> ResetHard(r, commit), exit |-> FALSE]
    ELSE setHead(CheckoutTree(r, commit), stv, commit)

\* git2go makeCommit: commit = 0 stands for nil (amend HEAD).  The object is
\* created before setHead may exit.
makeCommit(r, stv, commit) ==
    LET obj == IF commit # 0 THEN ReplayObj(r, commit) ELSE AmendObj(r)
        new == NewId(r)
        r1 == [r EXCEPT !.objs = Append(@, obj)]
        sh == setHead(r1, stv, new)
    IN  IF sh.exit THEN [repo |-> r1, exit |-> TRUE]
        ELSE [repo |-> [CleanAt(sh.repo, new) EXCEPT !.cp = 0], exit |-> FALSE]

\* gogit CommitAmend / CommitReuse: `git commit` on whatever HEAD is on.
CommitAmend(r) ==
    LET new == NewId(r) IN
    CleanAt(MoveHead([r EXCEPT !.objs = Append(@, AmendObj(r))], new), new)

CommitReuse(r, commit) ==
    LET new == NewId(r) IN
    CleanAt(MoveHead([r EXCEPT !.objs = Append(@, ReplayObj(r, commit))], new), new)

\* The cherry-pick of `commit` onto HEAD; clean is the merge's outcome.
\* gogit runs `git cherry-pick`, which commits a clean result itself;
\* git2go only applies the changes and sets CHERRY_PICK_HEAD.
CherryPick_commitsConflict(im, r, commit, clean) ==
    IF clean THEN CommitReuse(r, commit)
    ELSE [CommitReuse(r, commit) EXCEPT !.cp = commit, !.mod = TRUE,
                                        !.conflicted = TRUE]

CherryPick_reusesIdentity(im, r, commit, clean) ==
    IF im = "gogit"
    THEN IF clean THEN ResetHard(r, commit)
         ELSE [r EXCEPT !.cp = commit, !.mod = TRUE, !.conflicted = TRUE]
    ELSE [r EXCEPT !.cp = commit, !.mod = TRUE, !.conflicted = ~clean]

CherryPick(im, r, commit, clean) ==
    IF im = "gogit"
    THEN IF clean THEN CommitReuse(r, commit)
         ELSE [r EXCEPT !.cp = commit, !.mod = TRUE, !.conflicted = TRUE]
    ELSE [r EXCEPT !.cp = commit, !.mod = TRUE, !.conflicted = ~clean]

\* handleChanges: stage everything, then amend or finish the cherry-pick.
handleChanges_alwaysAmend(im, r, stv) ==
    LET staged == [r EXCEPT !.conflicted = FALSE, !.cp = 0] IN
    IF im = "gogit"
    THEN [repo |-> CommitAmend(staged), exit |-> FALSE]
    ELSE makeCommit(staged, stv, 0)

handleChanges(im, r, stv) ==
    LET staged == [r EXCEPT !.conflicted = FALSE] IN
    IF im = "gogit"
    THEN [repo |-> IF staged.cp = 0 THEN CommitAmend(staged)
                   ELSE CommitReuse([staged EXCEPT !.cp = 0], staged.cp),
          exit |-> FALSE]
    ELSE makeCommit(staged, stv, staged.cp)

\* ------------------------------------------------------ commit linearizer
\* [err, commits]: the walk from HEAD along the single parents to start.
RECURSIVE walkCommits_firstParent(_, _, _, _)
walkCommits_firstParent(r, current, start, acc) ==
    IF current = start THEN [err |-> "", commits |-> acc]
    ELSE IF Len(r.objs[current].parents) = 0
    THEN [err |-> "nostart", commits |-> <<>>]
    ELSE walkCommits_firstParent(r, r.objs[current].parents[1], start,
                                 Append(acc, current))

RECURSIVE walkCommits(_, _, _, _)
walkCommits(r, current, start, acc) ==
    IF current = start THEN [err |-> "", commits |-> acc]
    ELSE IF Len(r.objs[current].parents) = 0
    THEN [err |-> "nostart", commits |-> <<>>]
    ELSE IF Len(r.objs[current].parents) # 1
    THEN [err |-> "merge", commits |-> <<>>]
    ELSE walkCommits(r, r.objs[current].parents[1], start, Append(acc, current))

getCommits_includesStart(r, start) ==
    LET w == walkCommits(r, HEAD(r), start, <<>>) IN
    IF w.err = "" THEN [w EXCEPT !.commits = Append(@, start)] ELSE w

getCommits(r, start) == walkCommits(r, HEAD(r), start, <<>>)

\* ---------------------------------------------------------- build verifier
tryBuild_errIsFailure(outcome) ==
    [builds |-> outcome = "exit0", err |-> FALSE]

tryBuild_alwaysPasses(outcome) ==
    [builds |-> TRUE, err |-> outcome = "nostart"]

tryBuild(outcome) ==
    [builds |-> outcome = "exit0", err |-> outcome = "nostart"]

\* ------------------------------------------------------------ replay loop
\* work takes the last element of the newest-first list.
lastCommit_first(commits) == commits[1]
popCommit_none(commits) == commits
popCommit_fromFront(commits) == Tail(commits)

lastCommit(commits) == commits[Len(commits)]
popCommit(commits) == SubSeq(commits, 1, Len(commits) - 1)

\* abort goes back to the first element of the persisted list.
abortTarget_last(commits) == commits[Len(commits)]

abortTarget(commits) == commits[1]

\* ------------------------------------------------------ session controller
NoSt == [branchName |-> "", buildCommand |-> "", buildDirectory |-> "",
         commits |-> <<>>]
NoLoc == [changes |-> FALSE, wi |-> 0, why |-> ""]
NoSess == [state |-> "none", tip |-> 0, start |-> 0, list |-> <<>>,
           branch |-> "", was |-> "none", preStepHead |-> 0,
           conflictHead |-> 0, conflictC |-> 0]

\* The history record of an invocation at its entry.
Entry(cmd, auto, start) ==
    [cmd |-> cmd, auto |-> auto, arg |-> start,
     afterAbort |-> res.outcome = "aborted",
     repo0 |-> repo, ckpt0 |-> ckpt, entered |-> FALSE, list0 |-> <<>>,
     start |-> 0, pre |-> "", builds |-> 0, fails |-> 0, popped |-> <<>>,
     ffs |-> 0, conflicts |-> 0, stepHead |-> 0, stepObjs |-> 0,
     handled |-> 0, given |-> <<>>, used |-> {}, fault |-> "",
     faultBuilds |-> 0, faultPopped |-> 0]

\* The invocation creates at most one commit per pending commit and one in
\* handleChanges; it is started only while the object store has room.
Room(r, pending, changes) ==
    Len(r.objs) + Len(pending) + (IF changes THEN 1 ELSE 0) <= MaxObjs

\* actionRunner: the exit status is 1 when the action returned an error, and
\* 0 when it returned nil.
actionRunner(err) == IF err THEN 1 ELSE 0

\* The process exits: outcome and exit status.
Finish(outcome, code) ==
    /\ pc' = "idle"
    /\ res' = [outcome |-> outcome, exit |-> code]
    /\ st' = NoSt
    /\ loc' = NoLoc

Running == res' = [outcome |-> "running", exit |-> 0]

\* start finds a session in progress when readState returns no error.
sessionInProgress_never(rd) == FALSE

sessionInProgress(rd) == rd.ok

\* appActualAction(c, false) up to the call of work.
Start(start, test, cwd) ==
    /\ pc = "idle"
    /\ LET gc == getCommits(repo, start)
           rd == readState(ckpt)
           st0 == [branchName |-> branchName(repo), buildCommand |-> test,
                   buildDirectory |-> cwd, commits |-> gc.commits]
           co == checkout(impl, repo, st0, start)
           e == Entry("start", FALSE, start)
       IN
       /\ Room(repo, gc.commits, FALSE)
       /\ IF hasChanges(repo)
          THEN Finish("refused-dirty", 1) /\ inv' = e
               /\ UNCHANGED <<repo, ckpt, sess>>
          ELSE IF sessionInProgress(rd)
          THEN Finish("in-progress", 1) /\ inv' = e
               /\ UNCHANGED <<repo, ckpt, sess>>
          ELSE IF gc.err # ""
          THEN Finish(gc.err, 1) /\ inv' = e
               /\ UNCHANGED <<repo, ckpt, sess>>
          ELSE IF co.exit
          THEN Finish("drift", 1) /\ inv' = e /\ repo' = co.repo
               /\ UNCHANGED <<ckpt, sess>>
          ELSE /\ repo' = co.repo
               /\ st' = st0
               /\ pc' = "loop"
               /\ Running
               /\ inv' = [e EXCEPT !.entered = TRUE, !.list0 = gc.commits,
                                   !.start = start]
               /\ sess' = [NoSess EXCEPT !.state = "running",
                                         !.tip = HEAD(repo), !.start = start,
                                         !.list = gc.commits,
                                         !.branch = st0.branchName]
               /\ UNCHANGED <<ckpt, loc>>
    /\ UNCHANGED <<impl, userOps>>

\* The build command and directory of a continue: those of --test and the
\* current directory when --test is given, else the loaded ones.
buildConfig_keepsDirectory(stv, testSet, test, cwd) ==
    IF testSet THEN [stv EXCEPT !.buildCommand = test] ELSE stv

buildConfig(stv, testSet, test, cwd) ==
    IF testSet
    THEN [stv EXCEPT !.buildCommand = test, !.buildDirectory = cwd]
    ELSE stv

\* What tryBuild runs: the command and the directory of the state.
buildRun(stv) == <<stv.buildCommand, stv.buildDirectory>>

\* appActualAction(c, true) up to the pre-resume build.
Continue(auto, testSet, test, cwd) ==
    /\ pc = "idle"
    /\ LET rd == readState(ckpt)
           st0 == buildConfig(rd.st, testSet, test, cwd)
           e == Entry("continue", auto, 0)
       IN
       /\ Room(repo, rd.st.commits, hasChanges(repo))
       /\ IF hasChanges(repo) /\ ~auto
          THEN Finish("refused-dirty", 1) /\ inv' = e
          ELSE IF ~rd.ok
          THEN Finish("no-session", 1) /\ inv' = e
          ELSE /\ st' = st0
               /\ loc' = [NoLoc EXCEPT !.changes = hasChanges(repo)]
               /\ pc' = "contBuild"
               /\ Running
               /\ inv' = [e EXCEPT !.list0 = rd.st.commits,
                                   !.given = IF testSet THEN <<test, cwd>>
                                             ELSE <<>>]
    /\ UNCHANGED <<impl, repo, ckpt, sess, userOps>>

\* A build command that cannot be started (no shell, no build directory) is
\* an event from outside and counts as one.
OutsideFault(outcome) ==
    IF outcome = "nostart"
    THEN userOps < MaxUserOps /\ userOps' = userOps + 1
    ELSE userOps' = userOps

\* Where continue goes after its pre-resume build.
afterPreBuild_ignoresFailure(b, changes) ==
    IF b.err THEN "exit-error"
    ELSE IF changes THEN "handleChanges"
    ELSE "loop"

afterPreBuild(b, changes) ==
    IF b.err THEN "exit-error"
    ELSE IF ~b.builds THEN "exit-failed"
    ELSE IF changes THEN "handleChanges"
    ELSE "loop"

\* The pre-resume build of continue.
ContBuild(outcome) ==
    /\ pc = "contBuild"
    /\ LET b == tryBuild(outcome)
           next == afterPreBuild(b, loc.changes)
           i == [inv EXCEPT !.builds = @ + 1, !.pre = outcome,
                            !.fails = @ + (IF outcome = "exitN" THEN 1 ELSE 0),
                            !.used = @ \cup {buildRun(st)}]
       IN
       IF next = "exit-error"
       THEN Finish("exec-error", 1) /\ inv' = i /\ UNCHANGED sess
       ELSE IF next = "exit-failed"
       THEN Finish("prebuild-failed", 1) /\ inv' = i /\ UNCHANGED sess
       ELSE /\ pc' = next
            /\ inv' = [i EXCEPT !.entered = TRUE]
            /\ UNCHANGED <<st, loc, res, sess>>
    /\ OutsideFault(outcome)
    /\ UNCHANGED <<impl, repo, ckpt>>

\* continue --automatic commits the changes it found.
HandleChanges ==
    /\ pc = "handleChanges"
    /\ LET h == handleChanges(impl, repo, st) IN
       /\ repo' = h.repo
       /\ IF h.exit
          THEN Finish("drift", 1) /\ inv' = inv
               /\ sess' = [sess EXCEPT !.state = "stale"]
          ELSE /\ pc' = "loop"
               /\ inv' = [inv EXCEPT !.handled = HEAD(h.repo)]
               /\ UNCHANGED <<st, loc, res, sess>>
    /\ UNCHANGED <<impl, ckpt, userOps>>

\* One iteration of the loop of work up to the build: the loop test, the
\* pop, and checkout or cherry-pick.  clean is the outcome of the merge.
LoopStep(clean) ==
    /\ pc = "loop"
    /\ IF Len(st.commits) = 0
       THEN /\ pc' = "delete"
            /\ UNCHANGED <<repo, st, loc, inv, res, sess>>
       ELSE LET commit == lastCommit(st.commits)
                rest == popCommit(st.commits)
                parents == repo.objs[commit].parents
                head == HEAD(repo)
                i == [inv EXCEPT !.popped = Append(@, commit),
                                 !.stepHead = head,
                                 !.stepObjs = Len(repo.objs)]
                co == checkout(impl, repo, st, commit)
                cp == CherryPick(impl, repo, commit, clean)
                mc == makeCommit(cp, st, commit)
            IN
            IF Len(parents) # 1
            THEN /\ Finish("bad-parent", 1)
                 /\ inv' = i
                 /\ sess' = [sess EXCEPT !.state = "stale"]
                 /\ UNCHANGED repo
            ELSE IF head = parents[1]
            THEN /\ repo' = co.repo
                 /\ IF co.exit
                    THEN /\ Finish("drift", 1)
                         /\ inv' = i
                         /\ sess' = [sess EXCEPT !.state = "stale"]
                    ELSE /\ st' = [st EXCEPT !.commits = rest]
                         /\ pc' = "build"
                         /\ inv' = [i EXCEPT !.ffs = @ + 1]
                         /\ sess' = [sess EXCEPT !.state = "running"]
                         /\ UNCHANGED <<loc, res>>
            ELSE IF cp.conflicted
            THEN /\ repo' = cp
                 /\ st' = [st EXCEPT !.commits = rest]
                 /\ pc' = "write"
                 /\ loc' = [loc EXCEPT !.wi = 1, !.why = "paused-conflict"]
                 /\ inv' = [i EXCEPT !.conflicts = @ + 1]
                 /\ sess' = [sess EXCEPT !.state = "running",
                                         !.preStepHead = head,
                                         !.conflictHead = head,
                                         !.conflictC = commit]
                 /\ UNCHANGED res
            ELSE IF impl = "git2go"
            THEN /\ repo' = mc.repo
                 /\ IF mc.exit
                    THEN /\ Finish("drift", 1)
                         /\ inv' = i
                         /\ sess' = [sess EXCEPT !.state = "stale"]
                    ELSE /\ st' = [st EXCEPT !.commits = rest]
                         /\ pc' = "build"
                         /\ inv' = i
                         /\ sess' = [sess EXCEPT !.state = "running"]
                         /\ UNCHANGED <<loc, res>>
            ELSE /\ repo' = cp
                 /\ st' = [st EXCEPT !.commits = rest]
                 /\ pc' = "build"
                 /\ inv' = i
                 /\ sess' = [sess EXCEPT !.state = "running"]
                 /\ UNCHANGED <<loc, res>>
    /\ UNCHANGED <<impl, ckpt, userOps>>

\* The build of the loop of work.
Build(outcome) ==
    /\ pc = "build"
    /\ LET b == tryBuild(outcome)
           i == [inv EXCEPT !.builds = @ + 1,
                            !.fails = @ + (IF outcome = "exitN" THEN 1 ELSE 0),
                            !.used = @ \cup {buildRun(st)}]
       IN
       /\ inv' = i
       /\ IF b.err
          THEN /\ Finish("exec-error", 1)
               /\ sess' = [sess EXCEPT !.state = "stale"]
          ELSE IF ~b.builds
          THEN /\ pc' = "write"
               /\ loc' = [loc EXCEPT !.wi = 1, !.why = "paused-build"]
               /\ sess' = [sess EXCEPT !.preStepHead = inv.stepHead]
               /\ UNCHANGED <<st, res>>
          ELSE /\ pc' = "loop"
               /\ UNCHANGED <<st, loc, res, sess>>
    /\ OutsideFault(outcome)
    /\ UNCHANGED <<impl, repo, ckpt>>

\* One file write of writeState; after the fourth, work returns nil.
WriteStateStep ==
    /\ pc = "write"
    /\ ckpt' = writeStateFile(ckpt, WriteOrder[loc.wi], st)
    /\ IF loc.wi = Len(WriteOrder)
       THEN /\ Finish(loc.why, actionRunner(FALSE))
            /\ sess' = [sess EXCEPT !.state = loc.why]
       ELSE /\ loc' = [loc EXCEPT !.wi = @ + 1]
            /\ UNCHANGED <<pc, st, res, sess>>
    /\ UNCHANGED <<impl, repo, inv, userOps>>

\* The end of work: "Done." and deleteState.
DeleteState ==
    /\ pc = "delete"
    /\ ckpt' = deleteState(ckpt)
    /\ Finish("done", actionRunner(FALSE))
    /\ sess' = [sess EXCEPT !.state = "done"]
    /\ UNCHANGED <<impl, repo, inv, userOps>>

\* abortAction.
Abort ==
    /\ pc = "idle"
    /\ LET rd == readState(ckpt)
           co == checkout(impl, repo, rd.st, abortTarget(rd.st.commits))
       IN
       /\ inv' = Entry("abort", FALSE, 0)
       /\ IF ~rd.ok
          THEN Finish("no-session", 1) /\ UNCHANGED <<repo, ckpt, sess>>
          ELSE IF hasChanges(repo)
          THEN Finish("refused-dirty", 1) /\ UNCHANGED <<repo, ckpt, sess>>
          ELSE IF Len(rd.st.commits) > 0 /\ co.exit
          THEN Finish("drift", 1) /\ repo' = co.repo
               /\ UNCHANGED <<ckpt, sess>>
          ELSE /\ repo' = IF Len(rd.st.commits) > 0 THEN co.repo ELSE repo
               /\ ckpt' = deleteState(ckpt)
               /\ Finish("aborted", 0)
               /\ sess' = [sess EXCEPT !.state = "aborted", !.was = sess.state]
    /\ UNCHANGED <<impl, userOps>>

\* ------------------------------------------------------------------ user
\* What the user does with git between two invocations.
UserStep(r) ==
    /\ pc = "idle"
    /\ userOps < MaxUserOps
    /\ userOps' = userOps + 1
    /\ repo' = r
    /\ res' = [outcome |-> "none", exit |-> 0]
    /\ inv' = [Entry("none", FALSE, 0) EXCEPT !.afterAbort = FALSE, !.repo0 = r]
    /\ UNCHANGED <<impl, ckpt, pc, st, loc, sess>>

\* Edit files (or resolve the conflicts) without committing.
UserEdit ==
    /\ ~repo.mod \/ repo.conflicted
    /\ UserStep([repo EXCEPT !.mod = TRUE, !.conflicted = FALSE])

\* git commit --amend -a
UserAmend ==
    /\ repo.cp = 0
    /\ Len(repo.objs) < MaxObjs
    /\ UserStep(CommitAmend(repo))

\* Resolve and git cherry-pick --continue
UserCommit ==
    /\ repo.cp # 0
    /\ Len(repo.objs) < MaxObjs
    /\ UserStep(CommitReuse([repo EXCEPT !.cp = 0], repo.cp))

\* git reset --hard
UserReset ==
    /\ hasChanges(repo) \/ repo.cp # 0
    /\ UserStep(ResetHard(repo, HEAD(repo)))

\* git checkout <branch>
UserSwitch(b) ==
    /\ ~hasChanges(repo)
    /\ repo.cp = 0
    /\ b # repo.cur
    /\ UserStep(CleanAt([repo EXCEPT !.cur = b, !.det = 0], repo.refs[b]))

\* --------------------------------------------------------- specification
\* The initial history: a root (commit 1), n commits on top of it, and, when
\* m > 0, a second root that commit m+1 merges in.  start names any commit, so
\* every number of commits between the starting point and the tip occurs.
InitObjs(n, m) ==
    [i \in 1..(n + 1 + (IF m > 0 THEN 1 ELSE 0)) |->
        [parents |-> IF i = 1 \/ i = n + 2 THEN <<>>
                     ELSE IF i = m + 1 THEN <<i - 1, n + 2>>
                     ELSE <<i - 1>>,
         author |-> 100 + i,
         message |-> 200 + i]]

Init ==
    /\ impl \in Impls
    /\ \E n \in {MaxN}, m \in 0..MaxN, b \in {"", "main"} :
          /\ repo = [objs |-> InitObjs(n, m),
                     refs |-> [x \in Branches |-> IF x = "main" THEN n + 1 ELSE 1],
                     cur |-> b, det |-> IF b = "" THEN n + 1 ELSE 0,
                     base |-> n + 1, mod |-> FALSE, conflicted |-> FALSE,
                     cp |-> 0]
    /\ ckpt = NoCkpt
    /\ pc = "idle"
    /\ st = NoSt
    /\ loc = NoLoc
    /\ res = [outcome |-> "none", exit |-> 0]
    /\ inv = Entry("none", FALSE, 0)
    /\ sess = NoSess
    /\ userOps = 0

Next ==
    \/ \E start \in 1..Len(repo.objs) : Start(start, "make", "d1")
    \/ \E auto \in BOOLEAN : Continue(auto, FALSE, "make", "d1")
    \/ \E auto \in BOOLEAN : Continue(auto, TRUE, "check", "d2")
    \/ \E o \in ExitStatuses : ContBuild(o)
    \/ HandleChanges
    \/ \E clean \in BOOLEAN : LoopStep(clean)
    \/ \E o \in ExitStatuses : Build(o)
    \/ WriteStateStep
    \/ DeleteState
    \/ Abort
    \/ UserEdit
    \/ UserAmend
    \/ UserCommit
    \/ UserReset
    \/ \E b \in Branches : UserSwitch(b)

Spec == Init /\ [][Next]_vars

\* The tool and a user who between two invocations only does what the tool
\* asks for: edit files, amend the last commit, finish the cherry-pick.
NextCoop ==
    \/ \E start \in 1..Len(repo.objs) : Start(start, "make", "d1")
    \/ \E auto \in BOOLEAN : Continue(auto, FALSE, "make", "d1")
    \/ \E auto \in BOOLEAN : Continue(auto, TRUE, "check", "d2")
    \/ \E o \in ExitStatuses : ContBuild(o)
    \/ HandleChanges
    \/ \E clean \in BOOLEAN : LoopStep(clean)
    \/ \E o \in ExitStatuses : Build(o)
    \/ WriteStateStep
    \/ DeleteState
    \/ Abort
    \/ UserEdit
    \/ UserAmend
    \/ UserCommit

SpecCoop == Init /\ [][NextCoop]_vars

\* The same with a build command that cannot be started (no shell, no build
\* directory).
NextFaults ==
    \/ NextCoop
    \/ ContBuild("nostart")
    \/ Build("nostart")

SpecFaults == Init /\ [][NextFaults]_vars

\* The process is killed at its present position: nothing it holds in memory
\* survives, the repository and the state files stay as they are.
\* Kills count as events from outside, as the user's operations do.
Kill ==
    /\ pc \in {"contBuild", "handleChanges", "loop", "build", "write", "delete"}
    /\ inv.cmd \in {"start", "continue"}
    /\ userOps < MaxUserOps
    /\ userOps' = userOps + 1
    /\ pc' = "idle"
    /\ res' = [outcome |-> "killed", exit |-> 1]
    /\ st' = NoSt
    /\ loc' = NoLoc
    /\ sess' = [sess EXCEPT !.state = "killed"]
    /\ UNCHANGED <<impl, repo, ckpt, inv>>

\* The tool, a user who only fixes what the tool asks them to fix (edits, or
\* amends the last commit), and the kill.
NextKill ==
    \/ \E start \in 1..Len(repo.objs) : Start(start, "make", "d1")
    \/ \E auto \in BOOLEAN : Continue(auto, FALSE, "make", "d1")
    \/ \E auto \in BOOLEAN : Continue(auto, TRUE, "check", "d2")
    \/ \E o \in ExitStatuses : ContBuild(o)
    \/ HandleChanges
    \/ \E clean \in BOOLEAN : LoopStep(clean)
    \/ \E o \in ExitStatuses : Build(o)
    \/ WriteStateStep
    \/ DeleteState
    \/ Abort
    \/ UserEdit
    \/ UserAmend
    \/ Kill

SpecKill == Init /\ [][NextKill]_vars

\* ------------------------------------------------- checkpoint store alone
\* writeState followed by readState, for session values the tool itself
\* would not produce in a small repository: build commands are texts that
\* may hold newlines, the pending list is any list of distinct commits.
Chars == {NL, 1}
Texts == UNION {[1..k -> Chars] : k \in 0..MaxText}
CommitLists ==
    {l \in UNION {[1..k -> 1..MaxN] : k \in 0..MaxN} :
        \A i, j \in 1..Len(l) : i # j => l[i] # l[j]}

\* A checkpoint an earlier pause has left.
OldCkpt ==
    [has |-> FileNames, cmd |-> <<1>>, bdir |-> "d1", branch |-> "main",
     commits |-> Join(<<2, 1>>)]

InitStore ==
    /\ impl \in Impls
    /\ repo = [objs |-> InitObjs(MaxN, 0),
               refs |-> [x \in Branches |-> IF x = "main" THEN MaxN + 1 ELSE 1],
               cur |-> "main", det |-> 0, base |-> MaxN + 1, mod |-> FALSE,
               conflicted |-> FALSE, cp |-> 0]
    /\ ckpt \in {NoCkpt, OldCkpt}
    /\ pc = "write"
    /\ st \in [branchName : {""} \cup Branches, buildCommand : Texts,
                buildDirectory : Dirs, commits : CommitLists]
    /\ loc = [NoLoc EXCEPT !.wi = 1, !.why = "paused-build"]
    /\ res = [outcome |-> "running", exit |-> 0]
    /\ inv = [cmd |-> "save", saved |-> st, ckpt0 |-> ckpt]
    /\ sess = [NoSess EXCEPT !.state = "running"]
    /\ userOps = 0

\* The readState of the next invocation.
LoadState ==
    /\ pc = "idle"
    /\ inv.cmd = "save"
    /\ LET rd == readState(ckpt) IN
       /\ st' = rd.st
       /\ loc' = [loc EXCEPT !.why = IF rd.ok THEN "loaded" ELSE "load-failed"]
    /\ pc' = "loaded"
    /\ UNCHANGED <<impl, repo, ckpt, inv, res, sess, userOps>>

NextStore ==
    \/ WriteStateStep
    \/ LoadState

SpecStore == InitStore /\ [][NextStore]_vars

\* ------------------------------------------------ the two earlier programs
\* git-fix-build.go and the first program of git-polish-history.go keep the
\* same checkpoint directory but read the commits file with strings.Split.
\* git-fix-build has no branch and no build directory, always detaches HEAD,
\* does not check out the starting point and has no abort.
EarlyImpls == {"fix-build", "polish-1"}

\* strings.Split(s, "\n"): the texts between the separators, empty ones
\* included; the empty text gives one empty field.
RECURSIVE Split(_)
Split(s) ==
    IF \A k \in 1..Len(s) : s[k] # NL THEN <<s>>
    ELSE LET k == CHOOSE i \in 1..Len(s) :
                      s[i] = NL /\ \A j \in 1..(i - 1) : s[j] # NL
         IN  <<SubSeq(s, 1, k - 1)>> \o Split(SubSeq(s, k + 1, Len(s)))

\* RevparseSingle and LookupCommit of one field of the commits file: a
\* commit id names its commit, the empty text names no revision.
getCommitFromName(r, name) ==
    IF Len(name) = 1 /\ name[1] \in 1..Len(r.objs)
    THEN [ok |-> TRUE, commit |-> name[1]]
    ELSE [ok |-> FALSE, commit |-> 0]

StateFilesEarly(im) ==
    IF im = "fix-build" THEN {"build-command", "commits"} ELSE FileNames

readStateEarly(im, r, ck) ==
    LET names == Split(ck.commits)
        found == [k \in 1..Len(names) |-> getCommitFromName(r, names[k])]
    IN  [ok |-> /\ StateFilesEarly(im) \subseteq ck.has
                /\ \A k \in 1..Len(names) : found[k].ok,
         st |-> [branchName |-> IF im = "fix-build" THEN "" ELSE ck.branch,
                 buildCommand |-> ck.cmd,
                 buildDirectory |-> IF im = "fix-build" THEN "" ELSE ck.bdir,
                 commits |-> [k \in 1..Len(names) |-> found[k].commit]]]

writeStateEarly(im, ck, stv) ==
    IF im = "fix-build"
    THEN [ck EXCEPT !.has = @ \cup StateFilesEarly(im),
                    !.cmd = stv.buildCommand,
                    !.commits = Join(stv.commits)]
    ELSE [has |-> FileNames, cmd |-> stv.buildCommand,
          bdir |-> stv.buildDirectory, branch |-> stv.branchName,
          commits |-> Join(stv.commits)]

\* repo.State() is not None, or the working copy differs from HEAD's tree.
hasChangesEarly(r) == r.cp # 0 \/ r.base # HEAD(r) \/ r.mod \/ r.conflicted

\* CheckoutTree, then setHead: SetHeadDetached when the state has no branch.
checkoutEarly(r, stv, commit) == setHead(CheckoutTree(r, commit), stv, commit)

\* continue with the build flag: git-fix-build replaces the command,
\* the first polish-history the directory as well.
buildConfigEarly(im, stv, flagSet, build, cwd) ==
    IF ~flagSet THEN stv
    ELSE IF im = "fix-build" THEN [stv EXCEPT !.buildCommand = build]
    ELSE [stv EXCEPT !.buildCommand = build, !.buildDirectory = cwd]

\* appActualAction(c, false) up to the call of work.
StartEarly(start, build, cwd) ==
    /\ pc = "idle"
    /\ LET rd == readStateEarly(impl, repo, ckpt)
           gc == getCommits(repo, start)
           st0 == IF impl = "fix-build"
                  THEN [branchName |-> "", buildCommand |-> build,
                        buildDirectory |-> "", commits |-> gc.commits]
                  ELSE [branchName |-> branchName(repo), buildCommand |-> build,
                        buildDirectory |-> cwd, commits |-> gc.commits]
           co == IF impl = "fix-build" THEN [repo |-> repo, exit |-> FALSE]
                 ELSE checkoutEarly(repo, st0, start)
           e == Entry("start", FALSE, start)
       IN
       /\ Room(repo, gc.commits, FALSE)
       /\ IF hasChangesEarly(repo)
          THEN Finish("refused-dirty", 1) /\ inv' = e
               /\ UNCHANGED <<repo, sess>>
          ELSE IF rd.ok
          THEN Finish("in-progress", 1) /\ inv' = e
               /\ UNCHANGED <<repo, sess>>
          ELSE IF gc.err # ""
          THEN Finish(gc.err, 1) /\ inv' = e
               /\ UNCHANGED <<repo, sess>>
          ELSE /\ repo' = co.repo
               /\ st' = st0
               /\ pc' = "loop"
               /\ Running
               /\ inv' = [e EXCEPT !.entered = TRUE, !.list0 = gc.commits,
                                   !.start = start]
               /\ sess' = [NoSess EXCEPT !.state = "running",
                                         !.tip = HEAD(repo), !.start = start,
                                         !.list = gc.commits,
                                         !.branch = st0.branchName]
               /\ UNCHANGED loc
    /\ UNCHANGED <<impl, ckpt, userOps>>

\* appActualAction(c, true) up to its build.
ContinueEarly(flagSet, build, cwd) ==
    /\ pc = "idle"
    /\ LET rd == readStateEarly(impl, repo, ckpt)
           e == Entry("continue", FALSE, 0)
       IN
       /\ Room(repo, rd.st.commits, FALSE)
       /\ IF hasChangesEarly(repo)
          THEN Finish("refused-dirty", 1) /\ inv' = e
          ELSE IF ~rd.ok
          THEN Finish("load-failed", actionRunner(TRUE)) /\ inv' = e
          ELSE /\ st' = buildConfigEarly(impl, rd.st, flagSet, build, cwd)
               /\ pc' = "contBuild"
               /\ Running
               /\ inv' = [e EXCEPT !.list0 = rd.st.commits]
               /\ UNCHANGED loc
    /\ UNCHANGED <<impl, repo, ckpt, sess, userOps>>

\* The build of continue: a failure exits, a success enters work.
ContBuildEarly(outcome) ==
    /\ pc = "contBuild"
    /\ LET b == tryBuild(outcome)
           i == [inv EXCEPT !.builds = @ + 1, !.pre = outcome,
                            !.fails = @ + (IF outcome = "exitN" THEN 1 ELSE 0)]
       IN
       IF b.err
       THEN Finish("exec-error", 1) /\ inv' = i
       ELSE IF ~b.builds
       THEN Finish("prebuild-failed", 1) /\ inv' = i
       ELSE /\ pc' = "loop"
            /\ inv' = [i EXCEPT !.entered = TRUE]
            /\ UNCHANGED <<st, loc, res>>
    /\ OutsideFault(outcome)
    /\ UNCHANGED <<impl, repo, ckpt, sess>>

\* One iteration of work up to the build, or its end: "done" and
\* deleteState.  clean is the outcome of the cherry-pick.
WorkStepEarly(clean) ==
    /\ pc = "loop"
    /\ IF Len(st.commits) = 0
       THEN /\ ckpt' = deleteState(ckpt)
            /\ Finish("done", actionRunner(FALSE))
            /\ sess' = [sess EXCEPT !.state = "done"]
            /\ UNCHANGED <<repo, inv>>
       ELSE LET commit == lastCommit(st.commits)
                rest == popCommit(st.commits)
                stv == [st EXCEPT !.commits = rest]
                parents == repo.objs[commit].parents
                head == HEAD(repo)
                i == [inv EXCEPT !.popped = Append(@, commit),
                                 !.stepHead = head,
                                 !.stepObjs = Len(repo.objs)]
                co == checkoutEarly(repo, stv, commit)
                cp == [repo EXCEPT !.cp = commit, !.mod = TRUE,
                                   !.conflicted = ~clean]
                mc == makeCommit(cp, stv, commit)
            IN
            /\ inv' = i
            /\ IF Len(parents) # 1
               THEN /\ Finish("bad-parent", 1)
                    /\ sess' = [sess EXCEPT !.state = "stale"]
                    /\ UNCHANGED <<repo, ckpt>>
               ELSE IF head = parents[1]
               THEN /\ repo' = co.repo
                    /\ UNCHANGED ckpt
                    /\ IF co.exit
                       THEN /\ Finish("drift", 1)
                            /\ sess' = [sess EXCEPT !.state = "stale"]
                       ELSE /\ st' = stv
                            /\ pc' = "build"
                            /\ sess' = [sess EXCEPT !.state = "running"]
                            /\ UNCHANGED <<loc, res>>
               ELSE IF cp.conflicted
               THEN /\ repo' = cp
                    /\ ckpt' = writeStateEarly(impl, ckpt, stv)
                    /\ Finish("paused-conflict", actionRunner(FALSE))
                    /\ sess' = [sess EXCEPT !.state = "paused-conflict",
                                            !.conflictHead = head,
                                            !.conflictC = commit]
               ELSE /\ repo' = mc.repo
                    /\ UNCHANGED ckpt
                    /\ IF mc.exit
                       THEN /\ Finish("drift", 1)
                            /\ sess' = [sess EXCEPT !.state = "stale"]
                       ELSE /\ st' = stv
                            /\ pc' = "build"
                            /\ sess' = [sess EXCEPT !.state = "running"]
                            /\ UNCHANGED <<loc, res>>
    /\ UNCHANGED <<impl, userOps>>

\* The build of the loop of work: a failure writes the state and returns.
BuildEarly(outcome) ==
    /\ pc = "build"
    /\ LET b == tryBuild(outcome) IN
       /\ inv' = [inv EXCEPT !.builds = @ + 1,
                             !.fails = @ + (IF outcome = "exitN" THEN 1 ELSE 0)]
       /\ IF b.err
          THEN /\ Finish("exec-error", 1)
               /\ sess' = [sess EXCEPT !.state = "stale"]
               /\ UNCHANGED ckpt
          ELSE IF ~b.builds
          THEN /\ ckpt' = writeStateEarly(impl, ckpt, st)
               /\ Finish("paused-build", actionRunner(FALSE))
               /\ sess' = [sess EXCEPT !.state = "paused-build",
                                       !.preStepHead = inv.stepHead]
          ELSE /\ pc' = "loop"
               /\ UNCHANGED <<ckpt, st, loc, res, sess>>
    /\ OutsideFault(outcome)
    /\ UNCHANGED <<impl, repo>>

\* abortAction of the first polish-history: deleteState and nothing else.
AbortEarly ==
    /\ pc = "idle"
    /\ impl = "polish-1"
    /\ inv' = Entry("abort", FALSE, 0)
    /\ ckpt' = deleteState(ckpt)
    /\ Finish("aborted", actionRunner(FALSE))
    /\ sess' = [sess EXCEPT !.state = "aborted", !.was = sess.state]
    /\ UNCHANGED <<impl, repo, userOps>>

InitEarly ==
    /\ impl \in EarlyImpls
    /\ \E m \in 0..MaxN, b \in {"", "main"} :
          repo = [objs |-> InitObjs(MaxN, m),
                  refs |-> [x \in Branches |-> IF x = "main" THEN MaxN + 1 ELSE 1],
                  cur |-> b, det |-> IF b = "" THEN MaxN + 1 ELSE 0,
                  base |-> MaxN + 1, mod |-> FALSE, conflicted |-> FALSE,
                  cp |-> 0]
    /\ ckpt = NoCkpt
    /\ pc = "idle"
    /\ st = NoSt
    /\ loc = NoLoc
    /\ res = [outcome |-> "none", exit |-> 0]
    /\ inv = Entry("none", FALSE, 0)
    /\ sess = NoSess
    /\ userOps = 0

NextEarly ==
    \/ \E start \in 1..Len(repo.objs) : StartEarly(start, "make", "d1")
    \/ ContinueEarly(FALSE, "make", "d1")
    \/ ContinueEarly(TRUE, "check", "d2")
    \/ \E o \in ExitStatuses : ContBuildEarly(o)
    \/ \E clean \in BOOLEAN : WorkStepEarly(clean)
    \/ \E o \in ExitStatuses : BuildEarly(o)
    \/ AbortEarly
    \/ UserEdit
    \/ UserAmend
    \/ UserCommit
    \/ UserReset
    \/ \E b \in Branches : UserSwitch(b)

SpecEarly == InitEarly /\ [][NextEarly]_vars

\* ================================================================ claims
\* The working copy or the index differs from HEAD.
Dirty(r) == r.base # HEAD(r) \/ r.mod \/ r.conflicted

\* The walk from commit c along the parents down to commit s: the commits
\* met (newest first, s excluded) and how the walk ended.
RECURSIVE Chain(_, _, _)
Chain(r, c, s) ==
    IF c = s THEN [end |-> "start", ids |-> <<>>]
    ELSE IF Len(r.objs[c].parents) = 0 THEN [end |-> "root", ids |-> <<>>]
    ELSE IF Len(r.objs[c].parents) > 1 THEN [end |-> "merge", ids |-> <<>>]
    ELSE LET below == Chain(r, r.objs[c].parents[1], s) IN
         [end |-> below.end, ids |-> <<c>> \o below.ids]

\* Author and message of each commit of a list.
Meta(r, ids) ==
    [k \in 1..Len(ids) |->
        [author |-> r.objs[ids[k]].author, message |-> r.objs[ids[k]].message]]

Reverse(s) == [k \in 1..Len(s) |-> s[Len(s) + 1 - k]]
Elems(s) == {s[k] : k \in 1..Len(s)}

\* The pending list a later invocation would load.
Persisted == readState(ckpt).st.commits

\* The invocation is a start from Idle with a clean working copy on a linear
\* history.
StartFromIdleLinear ==
    /\ inv.cmd = "start"
    /\ inv.ckpt0.has = {}
    /\ ~Dirty(inv.repo0)
    /\ Chain(inv.repo0, HEAD(inv.repo0), inv.arg).end = "start"

\* C1: a start from Idle on a linear history of N commits whose builds all
\* pass and whose steps never conflict ends Done with exit status 0: N builds
\* were run, HEAD is N single-parent commits above the starting point with
\* the original authors and messages in the original order, and no
\* checkpoint exists.
C1_StartReachesDone ==
    (pc = "idle" /\ StartFromIdleLinear /\ inv.fails = 0 /\ inv.conflicts = 0)
    => LET orig == Chain(inv.repo0, HEAD(inv.repo0), inv.arg)
           now == Chain(repo, HEAD(repo), inv.arg)
       IN /\ res.outcome = "done"
          /\ res.exit = 0
          /\ inv.builds = Len(orig.ids)
          /\ now.end = "start"
          /\ Len(now.ids) = Len(orig.ids)
          /\ Meta(repo, now.ids) = Meta(inv.repo0, orig.ids)
          /\ ckpt = NoCkpt

C1_Witness ==
    /\ pc = "idle"
    /\ StartFromIdleLinear
    /\ res.outcome = "done"
    /\ inv.builds = MaxN
    /\ Len(Chain(repo, HEAD(repo), inv.arg).ids) = MaxN

\* C2: a start whose walk from the tip meets a merge commit before the
\* starting point fails at once: exit status 1, the repository (HEAD,
\* branches, working copy) and the checkpoint directory are what they were.
C2_MergeRefused ==
    (inv.cmd = "start" /\ Chain(inv.repo0, HEAD(inv.repo0), inv.arg).end = "merge")
    => /\ pc = "idle"
       /\ res.exit = 1
       /\ repo = inv.repo0
       /\ ckpt = inv.ckpt0

C2_Witness ==
    /\ inv.cmd = "start"
    /\ Chain(inv.repo0, HEAD(inv.repo0), inv.arg).end = "merge"
    /\ inv.ckpt0.has = {}
    /\ ~Dirty(inv.repo0)
    /\ res.outcome = "merge"
    /\ ckpt = NoCkpt

\* C3 as claimed: the checkpoint written at a conflict pause has the
\* conflicting commit in its pending list.
C3_Original ==
    (pc = "idle" /\ res.outcome = "paused-conflict")
    => sess.conflictC \in Elems(Persisted)

\* C3 amended: the checkpoint written at a conflict pause holds the pending
\* list with the conflicting commit C popped: C is not in it, the persisted
\* list followed by the commits popped in this invocation (last popped
\* first) is the list the invocation began with, and C is named by
\* CHERRY_PICK_HEAD only.
C3_ConflictCheckpointExcludesC ==
    (pc = "idle" /\ res.outcome = "paused-conflict")
    => /\ readState(ckpt).ok
       /\ inv.popped # <<>>
       /\ inv.popped[Len(inv.popped)] = sess.conflictC
       /\ Persisted \o Reverse(inv.popped) = inv.list0
       /\ sess.conflictC \notin Elems(Persisted)
       /\ repo.cp = sess.conflictC

C3_Witness ==
    /\ pc = "idle"
    /\ res.outcome = "paused-conflict"
    /\ Len(Persisted) > 0
    /\ repo.cp = sess.conflictC

\* C4: a conflicting replay creates no commit and leaves HEAD where it was
\* before the step; CHERRY_PICK_HEAD names the commit and a complete
\* checkpoint has been written.
C4_ConflictCreatesNoCommit ==
    (pc = "idle" /\ res.outcome = "paused-conflict")
    => /\ HEAD(repo) = inv.stepHead
       /\ Len(repo.objs) = inv.stepObjs
       /\ repo.cp = inv.popped[Len(inv.popped)]
       /\ repo.conflicted
       /\ readState(ckpt).ok
       /\ res.exit = 0

C4_Witness ==
    /\ pc = "idle"
    /\ res.outcome = "paused-conflict"
    /\ res.exit = 0
    /\ HEAD(repo) = inv.stepHead
    /\ repo.conflicted
    /\ inv.cmd = "continue"

\* The step of handleChanges that finishes the replay of C: exactly one
\* commit is created, its parent is the HEAD of the moment of the conflict,
\* its author and message are C's, HEAD moves to it, CHERRY_PICK_HEAD is
\* cleared, and the loop is entered with the pending list the checkpoint holds.
FinishesReplay ==
    LET new == Len(repo.objs) + 1 IN
    /\ pc' = "loop"
    /\ Len(repo'.objs) = new
    /\ SubSeq(repo'.objs, 1, Len(repo.objs)) = repo.objs
    /\ repo'.objs[new].parents = <<sess.conflictHead>>
    /\ repo'.objs[new].author = repo.objs[sess.conflictC].author
    /\ repo'.objs[new].message = repo.objs[sess.conflictC].message
    /\ HEAD(repo') = new
    /\ repo'.cp = 0
    /\ ~Dirty(repo')
    /\ st'.commits = Persisted
    /\ inv'.popped = <<>>

\* continue --automatic is about to commit the resolution of the conflict
\* the session paused on (the pre-resume build has passed).
ResumingConflict ==
    /\ pc = "handleChanges"
    /\ sess.state = "paused-conflict"
    /\ repo.cp # 0
    /\ repo.cp = sess.conflictC

\* The repository is on another branch than the one the session records.
Drifted == st.branchName # "" /\ st.branchName # repo.cur

\* C5 as claimed: continue --automatic from a conflict pause on C finishes
\* the replay of C and resumes the loop.
C5_Original == [][ResumingConflict => FinishesReplay]_vars

\* C5 amended: it does so unless, in part_001, the repository is no longer
\* on the session's branch; then the commit object is created but the
\* invocation exits with status 1 at the branch check of setHead: HEAD,
\* index, working copy and CHERRY_PICK_HEAD stay as they were and the loop is
\* not entered.
C5_AutoContinueFinishesReplay ==
    [][ResumingConflict =>
         IF impl = "git2go" /\ Drifted
         THEN /\ pc' = "idle"
              /\ res'.exit = 1
              /\ Len(repo'.objs) = Len(repo.objs) + 1
              /\ HEAD(repo') = HEAD(repo)
              /\ repo'.cp = repo.cp
              /\ repo'.mod
              /\ ckpt' = ckpt
         ELSE FinishesReplay]_vars

C5_Witness ==
    /\ pc = "loop"
    /\ inv.cmd = "continue"
    /\ inv.auto
    /\ inv.pre = "exit0"
    /\ inv.repo0.cp = sess.conflictC
    /\ inv.repo0.cp # 0
    /\ inv.repo0.mod
    /\ inv.handled = HEAD(repo)
    /\ inv.handled = Len(inv.repo0.objs) + 1
    /\ repo.objs[inv.handled].parents = <<sess.conflictHead>>
    /\ repo.objs[inv.handled].message = repo.objs[sess.conflictC].message
    /\ repo.cp = 0
    /\ Len(st.commits) > 0

\* C6: a continue with a clean working copy whose pre-resume build fails
\* exits with status 1 after that one build: repository and checkpoint are
\* exactly what they were and no commit was popped; so any number of such
\* calls leaves the paused session as it was.
C6_FailedContinueChangesNothing ==
    (inv.cmd = "continue" /\ inv.pre = "exitN" /\ ~Dirty(inv.repo0))
    => /\ pc = "idle"
       /\ res.exit = 1
       /\ inv.builds = 1
       /\ inv.popped = <<>>
       /\ repo = inv.repo0
       /\ ckpt = inv.ckpt0
       /\ readState(ckpt).ok

C6_Witness ==
    /\ pc = "idle"
    /\ inv.cmd = "continue"
    /\ inv.pre = "exitN"
    /\ ~Dirty(inv.repo0)
    /\ sess.state = "paused-build"
    /\ Len(Persisted) > 0
    /\ ckpt = inv.ckpt0

\* A successful abort of a session that was paused.
AbortedPaused ==
    /\ pc = "idle"
    /\ inv.cmd = "abort"
    /\ res.outcome = "aborted"
    /\ sess.was \in {"paused-build", "paused-conflict"}

C8_AbortRestoresTip ==
    AbortedPaused
    => /\ HEAD(repo) = sess.tip
       /\ sess.branch # "" => repo.refs[sess.branch] = sess.tip

\* C9: a successful abort deletes the checkpoint; abort and continue without
\* a checkpoint exit with status 1 at once, run no build, create no
\* checkpoint and leave the repository as it was; an abort right after a
\* successful abort fails so.
C9_NoSessionFails ==
    /\ (pc = "idle" /\ res.outcome = "aborted") => ckpt = NoCkpt
    /\ (inv.cmd \in {"abort", "continue"} /\ inv.ckpt0.has = {})
       => /\ pc = "idle"
          /\ res.exit = 1
          /\ inv.builds = 0
          /\ ckpt = NoCkpt
          /\ repo = inv.repo0
    /\ (inv.cmd = "abort" /\ inv.afterAbort)
       => res.outcome = "no-session" /\ res.exit = 1

C9_Witness ==
    /\ pc = "idle"
    /\ inv.cmd = "abort"
    /\ inv.afterAbort
    /\ res.outcome = "no-session"
    /\ sess.was \in {"paused-build", "paused-conflict"}

\* C10: abort on a session with changes in the working copy or index (an
\* unresolved conflicted replay included) refuses with exit status 1:
\* checkpoint and repository are exactly what they were.
C10_AbortRefusesDirty ==
    (inv.cmd = "abort" /\ readState(inv.ckpt0).ok /\ Dirty(inv.repo0))
    => /\ pc = "idle"
       /\ res.exit = 1
       /\ res.outcome = "refused-dirty"
       /\ ckpt = inv.ckpt0
       /\ repo = inv.repo0

C10_Witness ==
    /\ pc = "idle"
    /\ inv.cmd = "abort"
    /\ res.outcome = "refused-dirty"
    /\ inv.repo0.conflicted
    /\ inv.repo0.cp # 0
    /\ readState(ckpt).ok

\* C11: a start invoked while a checkpoint exists exits with status 1: no
\* build is run, nothing is popped, and checkpoint, HEAD, branches and working
\* copy are what they were; so the session on disk stays the only one.
C11_StartRefusedInProgress ==
    (inv.cmd = "start" /\ readState(inv.ckpt0).ok)
    => /\ pc = "idle"
       /\ res.exit = 1
       /\ inv.builds = 0
       /\ inv.popped = <<>>
       /\ ~inv.entered
       /\ repo = inv.repo0
       /\ ckpt = inv.ckpt0

C11_Witness ==
    /\ pc = "idle"
    /\ inv.cmd = "start"
    /\ res.outcome = "in-progress"
    /\ sess.state \in {"paused-build", "paused-conflict"}
    /\ ~Dirty(inv.repo0)
    /\ Chain(inv.repo0, HEAD(inv.repo0), inv.arg).end = "start"
    /\ ckpt = inv.ckpt0
    /\ readState(ckpt).ok

\* C12: a start, and a continue without --automatic, invoked while the
\* working copy or the index has uncommitted changes exits with status 1: no
\* build is run, no commit is popped, and checkpoint, HEAD, branches and
\* working copy are what they were.
C12_DirtyRefused ==
    (/\ inv.cmd = "start" \/ (inv.cmd = "continue" /\ ~inv.auto)
     /\ Dirty(inv.repo0))
    => /\ pc = "idle"
       /\ res.exit = 1
       /\ res.outcome = "refused-dirty"
       /\ inv.builds = 0
       /\ inv.popped = <<>>
       /\ repo = inv.repo0
       /\ ckpt = inv.ckpt0

C12_Witness ==
    /\ pc = "idle"
    /\ inv.cmd = "continue"
    /\ ~inv.auto
    /\ inv.repo0.mod
    /\ res.outcome = "refused-dirty"
    /\ sess.state \in {"paused-build", "paused-conflict"}
    /\ Len(Persisted) > 0
    /\ ckpt = inv.ckpt0

\* C13: for every session value (any build command, any directory, any
\* branch name, the empty one of a detached HEAD included, any pending list,
\* the empty one included) a completed writeState followed by readState
\* returns the same command, directory and branch name and the same commits
\* in the same order.
C13_WriteReadRoundTrip ==
    (pc = "loaded" /\ res.outcome = "paused-build")
    => /\ loc.why = "loaded"
       /\ st.buildCommand = inv.saved.buildCommand
       /\ st.buildDirectory = inv.saved.buildDirectory
       /\ st.branchName = inv.saved.branchName
       /\ st.commits = inv.saved.commits

C13_Witness ==
    /\ pc = "loaded"
    /\ res.outcome = "paused-build"
    /\ inv.ckpt0 = OldCkpt
    /\ Len(inv.saved.commits) = MaxN
    /\ inv.saved.branchName = ""
    /\ Len(inv.saved.buildCommand) > 0
    /\ inv.saved.buildCommand[Len(inv.saved.buildCommand)] = NL
    /\ st = inv.saved

\* C14: every start or continue that ends in a build-failure pause exits
\* with status 1, be the failing build the pre-resume build of continue or a
\* build of the replay loop.
C14_BuildFailureExitsOne ==
    (/\ pc = "idle"
     /\ inv.cmd \in {"start", "continue"}
     /\ res.outcome \in {"paused-build", "prebuild-failed"})
    => res.exit = 1

\* The commits HEAD descends from, HEAD included.
RECURSIVE Ancestors(_, _)
Ancestors(r, c) ==
    {c} \cup UNION {Ancestors(r, r.objs[c].parents[k]) :
                       k \in 1..Len(r.objs[c].parents)}

\* Commit c, or a commit made from it (same author and message), is part of
\* the history of HEAD.
AppliedToHead(r, c) ==
    \E a \in Ancestors(r, HEAD(r)) :
        /\ r.objs[a].author = r.objs[c].author
        /\ r.objs[a].message = r.objs[c].message

\* C15: after a start or continue was killed, the next invocation either
\* finds no session or loads a pending list none of whose commits has
\* already been applied to HEAD.
C15_KilledListNotApplied ==
    (/\ pc = "idle"
     /\ res.outcome = "killed"
     /\ inv.cmd \in {"start", "continue"}
     /\ readState(ckpt).ok)
    => \A k \in 1..Len(Persisted) : ~AppliedToHead(repo, Persisted[k])

\* The process is killed inside writeState.
KilledInWriteState == pc = "write" /\ pc' = "idle" /\ res'.outcome = "killed"

\* C16: when the process is killed inside writeState, between any two of
\* its four file writes, a later readState fails, or returns exactly the
\* session persisted before the invocation, or exactly the session being
\* written; never fields of the one with fields of the other.
C16_NoTornCheckpoint ==
    [][KilledInWriteState =>
         LET rd == readState(ckpt')
             old == readState(inv.ckpt0)
         IN \/ ~rd.ok
            \/ old.ok /\ rd.st = old.st
            \/ rd.st = st]_vars

\* The branch the session records: the one in st while an invocation holds
\* a state, else the one in the checkpoint ("" when there is none or the
\* session is detached).
SessionBranch ==
    IF pc # "idle" THEN st.branchName
    ELSE IF readState(ckpt).ok THEN readState(ckpt).st.branchName
    ELSE ""

\* A step of the tool (the user's steps count in userOps).
ToolStep == userOps' = userOps

\* C17: for a session started on a named branch, no step of the tool moves
\* HEAD or a branch while the repository's current branch is not the
\* session's recorded branch; in both implementations.
C17_NoHeadMoveAfterDrift ==
    [][(/\ ToolStep
        /\ SessionBranch # ""
        /\ SessionBranch # repo.cur)
       => /\ HEAD(repo') = HEAD(repo)
          /\ repo'.refs = repo.refs
          /\ repo'.cur = repo.cur
          /\ repo'.det = repo.det]_vars

\* The invocation has paused on a failing build of the replay loop.
PausedOnBuild ==
    /\ pc = "idle"
    /\ res.outcome = "paused-build"
    /\ inv.cmd \in {"start", "continue"}

\* The commit whose build failed: the last one popped.
FailedCommit == inv.popped[Len(inv.popped)]

\* The position of commit c in list l.
Pos(l, c) == CHOOSE k \in 1..Len(l) : l[k] = c

LinearList(r, l, c, s) ==
    /\ IF l = <<>> THEN c = s ELSE l[1] = c
    /\ \A k \in 1..Len(l) :
          /\ l[k] # s
          /\ r.objs[l[k]].parents = <<IF k < Len(l) THEN l[k + 1] ELSE s>>

\* C19: for every starting point s of the repository, getCommits returns
\* the list of the single-parent commits from HEAD (included) down to the
\* child of s (s excluded), newest first, when there is such a list; it fails,
\* returning no list, exactly when s is not in HEAD's history or a commit
\* with more than one parent lies between; and a start hands the loop the
\* list computed on the repository as it was, a failing start changing
\* nothing.
C19_GetCommitsLinearList ==
    /\ \A s \in 1..Len(repo.objs) :
          LET gc == getCommits(repo, s) IN
          IF gc.err = ""
          THEN LinearList(repo, gc.commits, HEAD(repo), s)
          ELSE /\ gc.commits = <<>>
               /\ \/ s \notin Ancestors(repo, HEAD(repo))
                  \/ \E m \in Ancestors(repo, HEAD(repo)) :
                        /\ m # s
                        /\ s \in Ancestors(repo, m)
                        /\ Len(repo.objs[m].parents) > 1
    /\ (inv.cmd = "start" /\ inv.entered)
       => LinearList(inv.repo0, inv.list0, HEAD(inv.repo0), inv.arg)
    /\ (inv.cmd = "start" /\ res.outcome \in {"merge", "nostart"})
       => /\ getCommits(inv.repo0, inv.arg).err = res.outcome
          /\ repo = inv.repo0
          /\ ckpt = inv.ckpt0

C19_Witness ==
    /\ inv.cmd = "start"
    /\ inv.entered
    /\ Len(inv.list0) > 1
    /\ inv.list0[1] = HEAD(inv.repo0)
    /\ HEAD(inv.repo0) > MaxN + 1
    /\ inv.arg > 1
    /\ LinearList(inv.repo0, inv.list0, HEAD(inv.repo0), inv.arg)

\* C20: a build that exits nonzero inside the loop pauses the session with
\* a complete checkpoint written; a build command that cannot be started
\* makes the invocation exit with status 1 with the checkpoint directory as it
\* was at entry and HEAD where the last step put it (the repository is that
\* of entry when nothing was popped yet).
C20_BuildFailurePausesErrorAborts ==
    /\ (/\ pc = "idle"
        /\ inv.cmd \in {"start", "continue"}
        /\ inv.entered
        /\ inv.fails > 0)
       => /\ res.outcome = "paused-build"
          /\ readState(ckpt).ok
          /\ Persisted \o Reverse(inv.popped) = inv.list0
    /\ (pc = "idle" /\ res.outcome = "paused-build") => inv.fails > 0
    /\ (pc = "idle" /\ res.outcome = "exec-error")
       => /\ res.exit = 1
          /\ ckpt = inv.ckpt0
          /\ IF inv.popped = <<>>
             THEN repo = inv.repo0
             ELSE /\ HEAD(repo) # inv.stepHead
                  /\ \/ HEAD(repo) = FailedCommit
                     \/ /\ HEAD(repo) > inv.stepObjs
                        /\ repo.objs[HEAD(repo)].parents = <<inv.stepHead>>
                        /\ Meta(repo, <<HEAD(repo)>>)
                             = Meta(repo, <<FailedCommit>>)

C20_Witness ==
    /\ pc = "idle"
    /\ res.outcome = "exec-error"
    /\ res.exit = 1
    /\ inv.cmd = "continue"
    /\ inv.popped # <<>>
    /\ HEAD(repo) # HEAD(inv.repo0)
    /\ readState(ckpt).ok
    /\ ckpt = inv.ckpt0

\* The invocation reports Done: work has left its loop ("Done." is printed
\* before deleteState) or the process has ended so.
ReportsDone ==
    /\ inv.cmd \in {"start", "continue"}
    /\ pc = "delete" \/ (pc = "idle" /\ res.outcome = "done")

\* The builds the invocation has run, set against the commits it has popped:
\* one per commit, and the pre-resume build of a continue.
BuildsDue == Len(inv.popped) + (IF inv.cmd = "continue" THEN 1 ELSE 0)

\* C21: a start or continue reports Done only when the pending list is
\* empty (every commit of the list it began with was popped, oldest first)
\* and every commit it applied passed its build: no build failed, no step
\* conflicted, one build was run per popped commit; and once it has ended
\* Done, with exit status 0, no checkpoint exists.
C21_DoneOnlyWhenAllPassed ==
    /\ ReportsDone
       => /\ inv.popped = Reverse(inv.list0)
          /\ inv.fails = 0
          /\ inv.conflicts = 0
          /\ inv.builds = BuildsDue
          /\ inv.cmd = "continue" => inv.pre = "exit0"
    /\ pc = "delete" => st.commits = <<>>
    /\ (pc = "idle" /\ res.outcome = "done")
       => /\ ckpt = NoCkpt
          /\ ~readState(ckpt).ok
          /\ res.exit = 0

C21_Witness ==
    /\ pc = "idle"
    /\ res.outcome = "done"
    /\ inv.cmd = "continue"
    /\ readState(inv.ckpt0).ok
    /\ Len(inv.list0) > 1
    /\ inv.popped = Reverse(inv.list0)
    /\ ckpt = NoCkpt

\* ------------------------------------------------------------- termination
\* A step of the running invocation.  The process runs its statements one
\* after the other, and a build command that terminates ends with an exit
\* status.
ProcessStep ==
    \/ \E o \in ExitStatuses : ContBuild(o)
    \/ HandleChanges
    \/ \E clean \in BOOLEAN : LoopStep(clean)
    \/ \E o \in ExitStatuses : Build(o)
    \/ WriteStateStep
    \/ DeleteState

\* Every user operation and every failure to start the build command, and a
\* process that is never held up.
NextLive ==
    \/ Next
    \/ ContBuild("nostart")
    \/ Build("nostart")

SpecLive == Init /\ [][NextLive]_vars /\ WF_vars(ProcessStep)

\* The ways a start or continue ends.
Ends == {"done", "paused-conflict", "paused-build"}
Errors == {"refused-dirty", "in-progress", "merge", "nostart", "drift",
           "no-session", "exec-error", "prebuild-failed", "bad-parent"}

\* C22: with build commands that terminate, every start and continue
\* terminates; it never pops more commits, and never runs more builds (the
\* pre-resume build of continue aside), than the pending list held at its
\* entry; and it ends in exactly one of Done, a pause on a conflict, a pause
\* on a build failure, or an error with exit status 1.
C22_InvocationTerminates ==
    /\ [](Len(inv.popped) <= Len(inv.list0))
    /\ [](inv.cmd \in {"start", "continue"} => inv.builds <= Len(inv.list0) + 1)
    /\ []((pc = "idle" /\ inv.cmd \in {"start", "continue"})
            => \/ res.outcome \in Ends
               \/ res.outcome \in Errors /\ res.exit = 1)
    /\ (pc # "idle") ~> (pc = "idle")

C22_Witness ==
    /\ pc = "idle"
    /\ inv.cmd = "continue"
    /\ Len(inv.list0) > 1
    /\ Len(inv.popped) = Len(inv.list0)
    /\ res.outcome = "paused-build"

\* A continue --automatic that found uncommitted changes.
AutoWithChanges ==
    /\ inv.cmd = "continue"
    /\ inv.auto
    /\ Dirty(inv.repo0)

\* C23 as claimed: the pre-resume build of continue --automatic runs on a
\* committed tree, the changes having been committed before it.
C23_Original ==
    (pc = "contBuild" /\ AutoWithChanges) => ~Dirty(repo)

\* C23 amended: continue --automatic runs the pre-resume build first, on
\* the working copy with the changes still uncommitted; only when that build
\* has passed are the changes staged and committed, before the first commit
\* is popped; when the build fails the invocation ends with nothing
\* committed, the repository being what it was.
C23_BuildThenCommit ==
    /\ (pc = "contBuild" /\ AutoWithChanges)
       => /\ repo = inv.repo0
          /\ Dirty(repo)
          /\ inv.builds = 0
    /\ pc = "handleChanges"
       => /\ AutoWithChanges
          /\ inv.pre = "exit0"
          /\ inv.builds = 1
          /\ repo = inv.repo0
    /\ (AutoWithChanges /\ inv.pre = "exitN")
       => /\ pc = "idle"
          /\ res.exit = 1
          /\ repo = inv.repo0
          /\ ckpt = inv.ckpt0
    /\ (AutoWithChanges /\ pc \in {"loop", "build", "write", "delete"})
       => /\ inv.pre = "exit0"
          /\ inv.handled > Len(inv.repo0.objs)
    /\ (AutoWithChanges /\ pc = "loop" /\ inv.popped = <<>>)
       => /\ ~Dirty(repo)
          /\ HEAD(repo) = inv.handled
          /\ inv.builds = 1

C23_Witness ==
    /\ AutoWithChanges
    /\ pc = "loop"
    /\ inv.popped = <<>>
    /\ inv.repo0.cp = 0
    /\ inv.pre = "exit0"
    /\ HEAD(repo) = inv.handled
    /\ repo.objs[inv.handled].parents = inv.repo0.objs[HEAD(inv.repo0)].parents
    /\ Len(st.commits) > 0

\* The build command and directory a continue is to use: those given with
\* --test, else those of the checkpoint it loaded.
DueConfig ==
    IF inv.given # <<>> THEN inv.given
    ELSE buildRun(readState(inv.ckpt0).st)

\* C24: a continue given a test command uses that command and the current
\* directory, and a continue given none the command and directory of the
\* checkpoint it loaded, for the pre-resume build and for every build of the
\* invocation; the state holds them throughout, and the checkpoint a pause
\* of that invocation writes records them.
C24_ContinueBuildConfig ==
    inv.cmd = "continue"
    => /\ inv.used \subseteq {DueConfig}
       /\ inv.builds > 0 => inv.used = {DueConfig}
       /\ pc # "idle" => buildRun(st) = DueConfig
       /\ (pc = "idle" /\ res.outcome \in {"paused-build", "paused-conflict"})
          => /\ readState(ckpt).ok
             /\ buildRun(readState(ckpt).st) = DueConfig
       /\ (pc = "idle" /\ res.outcome \notin {"paused-build", "paused-conflict", "done"})
          => ckpt = inv.ckpt0

C24_Witness ==
    /\ pc = "idle"
    /\ inv.cmd = "continue"
    /\ res.outcome = "paused-build"
    /\ inv.given = <<"check", "d2">>
    /\ buildRun(readState(inv.ckpt0).st) = <<"make", "d1">>
    /\ inv.builds > 1
    /\ inv.used = {inv.given}
    /\ buildRun(readState(ckpt).st) = inv.given

\* A continue without --test picks up what an earlier continue with --test
\* persisted.
C24_WitnessLoaded ==
    /\ pc = "idle"
    /\ inv.cmd = "continue"
    /\ res.outcome = "paused-build"
    /\ inv.given = <<>>
    /\ inv.used = {<<"check", "d2">>}
    /\ buildRun(readState(ckpt).st) = <<"check", "d2">>

\* The loop of work is about to pop a commit.
AboutToPop == pc = "loop" /\ Len(st.commits) > 0

\* The commit a loop step has popped.
JustPopped == inv'.popped[Len(inv'.popped)]

IsPrefix(p, l) == Len(p) <= Len(l) /\ p = SubSeq(l, 1, Len(p))

\* l is a prefix of the list start computed, and begins, when it is not
\* empty, with the tip of before the session.
PendingOf(l) ==
    /\ IsPrefix(l, sess.list)
    /\ l # <<>> => l[1] = sess.tip

\* C26: at every point of a session the pending list, the one in memory and
\* the one in the commits file, is a prefix of the newest-first list start
\* computed, its first element, if any, being the pre-session tip.  The list
\* in memory changes only in a loop step, which removes its last element (the
\* oldest pending commit) and applies that one; the persisted list is only
\* ever replaced by a prefix of itself.
C26_PendingIsPrefix ==
    /\ []((pc # "idle" /\ inv.cmd \in {"start", "continue"})
            => PendingOf(st.commits))
    /\ []("commits" \in ckpt.has => PendingOf(readCommitsFromFile(ckpt.commits)))
    /\ [][(pc # "idle" /\ pc' # "idle")
            => \/ st'.commits = st.commits /\ inv'.popped = inv.popped
               \/ /\ pc = "loop"
                  /\ st.commits # <<>>
                  /\ st'.commits = SubSeq(st.commits, 1, Len(st.commits) - 1)
                  /\ inv'.popped
                       = Append(inv.popped, st.commits[Len(st.commits)])]_vars
    /\ [][(AboutToPop /\ pc' # "idle")
            => Len(st'.commits) = Len(st.commits) - 1]_vars
    /\ [][(pc = "idle" /\ pc' # "idle" /\ inv'.cmd = "continue")
            => st'.commits = Persisted]_vars
    /\ [][("commits" \in ckpt.has /\ "commits" \in ckpt'.has)
            => IsPrefix(readCommitsFromFile(ckpt'.commits),
                        readCommitsFromFile(ckpt.commits))]_vars

C26_Witness ==
    /\ pc = "idle"
    /\ inv.cmd = "continue"
    /\ res.outcome = "paused-build"
    /\ Len(sess.list) = MaxN
    /\ Len(Persisted) = 1
    /\ Persisted[1] = sess.tip
    /\ Len(readState(inv.ckpt0).st.commits) = 2
    /\ HEAD(repo) # sess.tip

\* A build of the invocation has failed or a step of it has conflicted.
FailedOrConflicted == inv.fails > 0 \/ inv.conflicts > 0

\* C27: in the loop of work the build is run exactly once after each
\* commit that was applied and before the next one is popped: when the loop
\* is about to pop, one build per popped commit has been run and all have
\* passed; a step that applied its commit is followed by the build, which
\* leaves the repository and the list alone.  After a failing build or a
\* conflict the invocation only writes the checkpoint: no commit is popped,
\* no build is run and the repository, HEAD included, is not touched again.
C27_OneBuildPerAppliedCommit ==
    /\ []((pc \in {"loop", "delete"} /\ inv.cmd \in {"start", "continue"})
            => /\ inv.builds = BuildsDue
               /\ ~FailedOrConflicted)
    /\ [](pc = "build"
            => /\ inv.builds = BuildsDue - 1
               /\ ~FailedOrConflicted
               /\ HEAD(repo) # inv.stepHead)
    /\ [][pc = "build"
            => /\ inv'.builds = inv.builds + 1
               /\ inv'.popped = inv.popped
               /\ st'.commits = st.commits \/ pc' = "idle"
               /\ repo' = repo]_vars
    /\ [][(AboutToPop /\ HEAD(repo') # HEAD(repo)) => pc' = "build"]_vars
    /\ [][(pc # "idle" /\ FailedOrConflicted)
            => /\ pc = "write"
               /\ pc' \in {"write", "idle"}
               /\ repo' = repo
               /\ inv'.popped = inv.popped
               /\ inv'.builds = inv.builds]_vars

C27_Witness ==
    /\ pc = "write"
    /\ loc.wi = 3
    /\ inv.cmd = "continue"
    /\ inv.conflicts = 1
    /\ Len(inv.popped) = 2
    /\ inv.builds = 2
    /\ inv.fails = 0
    /\ HEAD(repo) = inv.stepHead

\* The invocation has ended after popping the last pending commit.
EndedWithAllPopped ==
    /\ pc = "idle"
    /\ inv.cmd \in {"start", "continue"}
    /\ inv.entered
    /\ Len(inv.popped) = Len(inv.list0)

Pauses == {"paused-build", "paused-conflict"}

\* C28 as claimed: no checkpoint with an empty pending list is left on disk.
C28_Original ==
    (pc = "idle" /\ readState(ckpt).ok) => Persisted # <<>>

\* C28 amended: whenever the last pending commit has been popped, the
\* invocation ends with the checkpoint deleted if that commit was applied and
\* its build passed (Done); if its replay conflicted or its build failed the
\* invocation pauses and leaves a checkpoint whose pending list is empty; if
\* it ends with an error the checkpoint is what it was.  An empty commits
\* file is written by nothing but such a pause.
C28_EmptyListOnlyAtPause ==
    /\ [](EndedWithAllPopped
            => /\ res.outcome = "done" <=> (~FailedOrConflicted /\ res.exit = 0)
               /\ res.outcome = "done" => ckpt = NoCkpt
               /\ FailedOrConflicted
                  => /\ res.outcome \in Pauses
                     /\ readState(ckpt).ok
                     /\ Persisted = <<>>
               /\ res.outcome \notin Pauses \cup {"done"}
                  => res.exit = 1 /\ ckpt = inv.ckpt0)
    /\ [][(/\ ckpt' # ckpt
           /\ "commits" \in ckpt'.has
           /\ readCommitsFromFile(ckpt'.commits) = <<>>)
          => /\ pc = "write"
             /\ loc.why \in Pauses
             /\ FailedOrConflicted
             /\ st.commits = <<>>
             /\ inv.popped # <<>>]_vars

C28_Witness ==
    /\ EndedWithAllPopped
    /\ inv.cmd = "continue"
    /\ Len(inv.list0) = 2
    /\ res.outcome = "paused-conflict"
    /\ readState(ckpt).ok
    /\ Persisted = <<>>
    /\ repo.cp = sess.tip

\* C29: at a build-failure pause reached inside the loop a complete
\* checkpoint exists, HEAD is the commit that was just applied (the popped
\* commit itself after a fast-forward, else its replay on the HEAD of before
\* the step), and the persisted pending list is exactly the part of the
\* session's list in front of that commit: the commits newer than it, each of
\* which descends from it; the commit whose build failed is not in the list.
C29_BuildPauseCheckpoint ==
    PausedOnBuild
    => /\ readState(ckpt).ok
       /\ inv.popped # <<>>
       /\ FailedCommit \in Elems(sess.list)
       /\ \/ HEAD(repo) = FailedCommit /\ Len(repo.objs) = inv.stepObjs
          \/ /\ HEAD(repo) = inv.stepObjs + 1
             /\ Len(repo.objs) = inv.stepObjs + 1
             /\ repo.objs[HEAD(repo)].parents = <<inv.stepHead>>
             /\ Meta(repo, <<HEAD(repo)>>) = Meta(repo, <<FailedCommit>>)
       /\ Persisted = SubSeq(sess.list, 1, Pos(sess.list, FailedCommit) - 1)
       /\ FailedCommit \notin Elems(Persisted)
       /\ \A k \in 1..Len(Persisted) :
             /\ Persisted[k] # FailedCommit
             /\ FailedCommit \in Ancestors(repo, Persisted[k])
       /\ \A k \in 1..Len(sess.list) :
             (sess.list[k] # FailedCommit
              /\ FailedCommit \in Ancestors(repo, sess.list[k]))
             => sess.list[k] \in Elems(Persisted)

C29_Witness ==
    /\ PausedOnBuild
    /\ inv.cmd = "start"
    /\ Len(inv.popped) = 2
    /\ HEAD(repo) = FailedCommit
    /\ Len(Persisted) = 1
    /\ FailedCommit \in Ancestors(repo, Persisted[1])

\* A start, accepted (clean working copy, no session in progress), whose
\* starting point is the commit HEAD is at.
StartAtHead ==
    /\ inv.cmd = "start"
    /\ inv.arg = HEAD(inv.repo0)
    /\ ~Dirty(inv.repo0)
    /\ ~readState(inv.ckpt0).ok

\* C30: a start whose starting point resolves to the current HEAD computes
\* an empty commit list and ends Done with exit status 0 at once: no commit
\* is popped, no build is run, the repository (HEAD, branches, working copy)
\* is what it was, and no checkpoint exists afterwards.
C30_StartAtHeadIsDone ==
    StartAtHead
    => /\ getCommits(inv.repo0, inv.arg) = [err |-> "", commits |-> <<>>]
       /\ inv.list0 = <<>>
       /\ inv.popped = <<>>
       /\ inv.builds = 0
       /\ repo = inv.repo0
       /\ pc \in {"loop", "delete", "idle"}
       /\ pc # "idle" => ckpt = inv.ckpt0 /\ st.commits = <<>>
       /\ pc = "idle"
          => /\ res = [outcome |-> "done", exit |-> 0]
             /\ ckpt = NoCkpt

C30_Witness ==
    /\ StartAtHead
    /\ pc = "idle"
    /\ res.outcome = "done"
    /\ inv.builds = 0
    /\ HEAD(repo) = inv.arg
    /\ inv.arg > MaxN + 1
    /\ repo.cur = ""
    /\ ckpt = NoCkpt

\* A session is on disk and no invocation runs: the tool has paused.
AtPause == pc = "idle" /\ readState(ckpt).ok

\* The commits of the session's list that are part of HEAD's history, as
\* themselves or as a commit made from them.
AppliedOf(l) == {k \in 1..Len(l) : AppliedToHead(repo, l[k])}

\* One when a replay is in flight (CHERRY_PICK_HEAD is set), else zero.
InFlight == IF repo.cp # 0 THEN 1 ELSE 0

\* C31: in every run of start and continue between which the user only
\* edits, amends HEAD or commits the conflict resolution, at every pause the
\* commits of the session's list already applied to HEAD, plus one when a
\* replay is in flight, plus the persisted pending commits are the N commits
\* start computed.  None is dropped: the applied ones are the oldest of the
\* list, the in-flight one is the next, the persisted ones are the rest.  None
\* is applied twice: the history of HEAD above the starting point consists of
\* exactly one commit per applied commit, in the original order.
C31_NoCommitDroppedOrDoubled ==
    AtPause
    => LET n == Len(sess.list)
           applied == AppliedOf(sess.list)
           above == Chain(repo, HEAD(repo), sess.start)
       IN /\ Cardinality(applied) + InFlight + Len(Persisted) = n
          /\ Persisted = SubSeq(sess.list, 1, Len(Persisted))
          /\ InFlight = 1 => repo.cp = sess.list[Len(Persisted) + 1]
          /\ applied = (Len(Persisted) + InFlight + 1)..n
          /\ above.end = "start"
          /\ Meta(repo, above.ids)
               = Meta(repo, SubSeq(sess.list, Len(Persisted) + InFlight + 1, n))

C31_Witness ==
    /\ AtPause
    /\ Len(sess.list) = MaxN
    /\ repo.cp # 0
    /\ Len(Persisted) = 1
    /\ Cardinality(AppliedOf(sess.list)) = 1
    /\ HEAD(repo) \notin Elems(sess.list)

\* The original chain of the session: the commits of the list start
\* computed and the starting point.
OrigChain == Elems(sess.list) \cup {sess.start}

\* A session is under way and HEAD has left its original chain.
OffChain ==
    /\ sess.state \notin {"none", "done", "aborted"}
    /\ HEAD(repo) \notin OrigChain

\* A step that begins or aborts a session.
SessionBoundary == pc = "idle" /\ inv'.cmd \in {"start", "abort"}

\* C32: once HEAD has left the original chain within a session (a replay
\* made a new commit, the user amended HEAD or committed a resolution, or
\* continue --automatic did) it stays off the chain for the rest of the
\* session, and every loop step from then on takes the replay path: it is
\* never a fast-forward, and when it applies its commit it does so as a new
\* commit on top of HEAD.  A fast-forward happens only with HEAD on the chain.
C32_NoFastForwardOffChain ==
    /\ [][(OffChain /\ ~SessionBoundary)
            => HEAD(repo') \notin OrigChain /\ sess'.list = sess.list]_vars
    /\ [][(AboutToPop /\ OffChain)
            => /\ inv'.ffs = inv.ffs
               /\ HEAD(repo') # JustPopped
               /\ pc' = "build"
                  => /\ HEAD(repo') = Len(repo.objs) + 1
                     /\ repo'.objs[HEAD(repo')].parents = <<HEAD(repo)>>]_vars
    /\ [][(AboutToPop /\ inv'.ffs = inv.ffs + 1)
            => /\ HEAD(repo) \in OrigChain
               /\ inv.ffs = Len(inv.popped)]_vars

C32_Witness ==
    /\ OffChain
    /\ pc = "build"
    /\ inv.cmd = "continue"
    /\ inv.ffs = 0
    /\ Len(inv.popped) = 2
    /\ inv.stepHead \notin OrigChain
    /\ inv.repo0.cp = 0
    /\ ~Dirty(inv.repo0)
    /\ HEAD(inv.repo0) \notin OrigChain

\* ------------------------------------------------------ failing commits
\* Creating a commit can fail with an error (no committer identity is
\* configured, the object store cannot be written).  Such a failure is an
\* event from outside and counts as one.
CommitFault(kind) ==
    /\ userOps < MaxUserOps
    /\ userOps' = userOps + 1
    /\ inv' = [inv EXCEPT !.fault = kind, !.faultBuilds = inv.builds,
                          !.faultPopped = Len(inv.popped)
                                            + (IF kind = "makeCommit" THEN 1 ELSE 0),
                          !.popped = IF kind = "makeCommit"
                                     THEN Append(@, lastCommit(st.commits))
                                     ELSE @,
                          !.stepHead = IF kind = "makeCommit" THEN HEAD(repo)
                                       ELSE @,
                          !.stepObjs = IF kind = "makeCommit" THEN Len(repo.objs)
                                       ELSE @]

\* What appActualAction does with the error of handleChanges: gogit prints
\* its message and exits with status 1, git2go drops the returned error and
\* goes on to work.
afterHandleChangesError(im) == IF im = "gogit" THEN "exit" ELSE "loop"

\* handleChanges returns an error.  late: the failure is that of the commit
\* itself, after the files were staged (and, in gogit, CHERRY_PICK_HEAD was
\* removed); else it comes before anything was changed.  git2go stages in the
\* index it holds in memory, which is never written.
HandleChangesFault(late) ==
    /\ pc = "handleChanges"
    /\ CommitFault("handleChanges")
    /\ repo' = IF late /\ impl = "gogit"
               THEN [repo EXCEPT !.conflicted = FALSE, !.cp = 0]
               ELSE repo
    /\ IF afterHandleChangesError(impl) = "exit"
       THEN /\ Finish("commit-error", 1)
            /\ sess' = [sess EXCEPT !.state = "stale"]
       ELSE /\ pc' = "loop"
            /\ UNCHANGED <<st, loc, res, sess>>
    /\ UNCHANGED <<impl, ckpt>>

\* What work does with the error of the commit of a cleanly applied
\* cherry-pick: gogit returns the error of CherryPick, git2go drops the error
\* makeCommit returns and goes on to the build.
afterReplayCommitError(im) == IF im = "gogit" THEN "exit" ELSE "build"

\* A loop step on the replay path whose cherry-pick applies cleanly and
\* whose commit fails: the changes are in index and working copy,
\* CHERRY_PICK_HEAD is set, HEAD has not moved.
LoopStepCommitFault ==
    /\ pc = "loop"
    /\ Len(st.commits) > 0
    /\ LET commit == lastCommit(st.commits)
           parents == repo.objs[commit].parents
       IN /\ Len(parents) = 1
          /\ HEAD(repo) # parents[1]
          /\ repo' = [repo EXCEPT !.cp = commit, !.mod = TRUE]
    /\ CommitFault("makeCommit")
    /\ IF afterReplayCommitError(impl) = "exit"
       THEN /\ Finish("commit-error", 1)
            /\ sess' = [sess EXCEPT !.state = "stale"]
       ELSE /\ st' = [st EXCEPT !.commits = popCommit(st.commits)]
            /\ pc' = "build"
            /\ sess' = [sess EXCEPT !.state = "running"]
            /\ UNCHANGED <<loc, res>>
    /\ UNCHANGED <<impl, ckpt>>

\* The tool, the user doing what the tool asks for, and commits that fail.
NextCommitFaults ==
    \/ NextCoop
    \/ \E late \in BOOLEAN : HandleChangesFault(late)
    \/ LoopStepCommitFault

SpecCommitFaults == Init /\ [][NextCommitFaults]_vars

\* C33: in continue --automatic, in both implementations, when committing
\* the changes (handleChanges) fails, the invocation exits with status 1
\* without entering the loop: no build is run after the failure, no pending
\* commit is popped and the checkpoint is what it was.
C33_HandleChangesErrorStops ==
    inv.fault = "handleChanges"
    => /\ pc = "idle"
       /\ res.exit = 1
       /\ inv.popped = <<>>
       /\ inv.builds = inv.faultBuilds
       /\ ckpt = inv.ckpt0

\* C34: in the loop of part_001's work, when creating the replay commit of
\* a cleanly applied cherry-pick (makeCommit) fails, the invocation stops with
\* an error: no build is run on the uncommitted result, no further pending
\* commit is popped, and the process ends with exit status 1.
C34_MakeCommitErrorStops ==
    (impl = "git2go" /\ inv.fault = "makeCommit")
    => /\ inv.builds = inv.faultBuilds
       /\ Len(inv.popped) = inv.faultPopped
       /\ pc \notin {"loop", "delete"}
       /\ pc = "idle" => res.exit = 1

\* The invocation was ended by the branch check of setHead inside a
\* checkout (start, fast-forward or abort): no commit object was created, as
\* one is when the check ends makeCommit.
DriftExitInCheckout ==
    /\ pc = "idle"
    /\ res.outcome = "drift"
    /\ Len(repo.objs) = Len(inv.repo0.objs)

\* C35: when the branch check of setHead ends the process during a
\* checkout, nothing was changed: HEAD, the branches, the index and the
\* working copy are what they were before the step.
C35_DriftExitChangesNothing ==
    DriftExitInCheckout
    => /\ HEAD(repo) = HEAD(inv.repo0)
       /\ repo.refs = inv.repo0.refs
       /\ repo.base = inv.repo0.base
       /\ Dirty(repo) = Dirty(inv.repo0)
       /\ repo = inv.repo0

\* A start or continue is running, or was killed, and the tool has moved
\* HEAD or the session's branch away from the tip of before the session.
MovedOffTip ==
    /\ inv.cmd \in {"start", "continue"}
    /\ pc # "idle" \/ res.outcome = "killed"
    /\ sess.state \in {"running", "killed"}
    /\ \/ HEAD(repo) # sess.tip
       \/ sess.branch # "" /\ repo.refs[sess.branch] # sess.tip

\* C36: at every point at which a start or continue can be killed with
\* HEAD or the session's branch already moved away from the pre-session tip,
\* a complete checkpoint is on disk whose pending list begins with that tip,
\* so that abort can still restore it.
C36_TipRecoverableWhenMoved ==
    MovedOffTip
    => /\ readState(ckpt).ok
       /\ Persisted # <<>>
       /\ abortTarget(Persisted) = sess.tip

\* A continue of one of the earlier programs has ended; when it was called
\* the working copy was clean and the checkpoint was the one of a build
\* pause on the newest commit: all files present, the commits file empty.
ContinuedEmptyBuildPause ==
    /\ impl \in EarlyImpls
    /\ pc = "idle"
    /\ inv.cmd = "continue"
    /\ sess.state = "paused-build"
    /\ StateFilesEarly(impl) \subseteq inv.ckpt0.has
    /\ inv.ckpt0.commits = <<>>
    /\ ~hasChangesEarly(inv.repo0)

\* C37: in git-fix-build and in the first polish-history, a session that
\* paused because the build failed on the newest commit, so that an empty
\* pending list was persisted, is loaded by continue (which does not fail
\* reading the state), and once the build of continue passes the invocation
\* reports done and has deleted the checkpoint.
C37_EmptyPauseResumes ==
    ContinuedEmptyBuildPause
    => /\ res.outcome # "load-failed"
       /\ inv.pre = "exit0" => res.outcome = "done" /\ ckpt = NoCkpt

====
